---- MODULE Spec2Model ----
(***************************************************************************)
(* TokenBridge (src/src/lib.rs): swaps between ETH and Dai through the     *)
(* Uniswap exchange, the Dai approval, and the Dai <-> xDai bridge         *)
(* transfers.  Every public method builds a future; the model follows one  *)
(* such future per invocation, together with the part of the chain that    *)
(* the futures talk to: the submitted transactions, the blocks and the     *)
(* event logs that the node's filters deliver.                             *)
(***************************************************************************)
EXTENDS Integers, Sequences, FiniteSets, TLC

\* ------------------------------------------------------------------ bounds
MaxInv == 1          \* invocations of one behaviour of Spec
MaxSerial == 2       \* invocations, one after another, of SpecSerial
MaxTime == 2         \* wall clock ticks (seconds) of one behaviour
MaxQuote == 120      \* the quotes of SpecArith run from 0 to here

\* ------------------------------------------------------- program constants
SlippageDivisor == 40
SlippageFactor == 39
WordBytes == 32
PurchaseAmountTopic == 4   \* response.topics[3], counted from 1

\* The futures the caller holds at a time, and the timeouts it passes.
Slots == {1, 2}
Timeouts == {1, 2}

SwapOps == {"eth_to_dai_swap", "dai_to_eth_swap"}
ApproveOp == "approve_uniswap_dai_transfers"
BridgeOps == {"dai_to_xdai_bridge", "xdai_to_dai_bridge"}
Ops == SwapOps \cup {ApproveOp} \cup BridgeOps

\* The read-only methods: one contract_call each, and the decoding of its answer.
PriceOps == {"eth_to_dai_price", "dai_to_eth_price"}
CheckOp == "check_if_uniswap_dai_approved"
BalanceOp == "get_dai_balance"
ReadOps == PriceOps \cup {CheckOp, BalanceOp}

\* The fields of TokenBridge that the operations read.
uniswap_address == "uniswap"
foreign_dai_contract_address == "dai"
xdai_foreign_bridge_address == "foreign_bridge"
xdai_home_bridge_address == "home_bridge"
own_address == "own"
other_address == "other"

NoValue == -1

\* ------------------------------------------------------------- conversions
\* The big-endian bytes of n in a word of WordBytes bytes (Uint256 -> [u8; 32]).
RECURSIVE ToBytesBe(_, _)
ToBytesBe(n, len) ==
    IF len = 0 THEN <<>> ELSE Append(ToBytesBe(n \div 256, len - 1), n % 256)

EncodeWord(n) == ToBytesBe(n, WordBytes)

\* Uint256::from_bytes_be: the number whose big-endian digits are the bytes.
RECURSIVE from_bytes_be(_)
from_bytes_be(bytes) ==
    IF bytes = <<>> THEN 0
    ELSE from_bytes_be(SubSeq(bytes, 1, Len(bytes) - 1)) * 256 + bytes[Len(bytes)]

\* output.get(0..32): the first WordBytes bytes, or None if there are fewer.
None == <<>>

\* A bug that takes the last WordBytes bytes of the answer.
GetWordFromEnd(output) ==
    IF Len(output) >= WordBytes
    THEN SubSeq(output, Len(output) - WordBytes + 1, Len(output)) ELSE None

GetWord(output) ==
    IF Len(output) >= WordBytes THEN SubSeq(output, 1, WordBytes) ELSE None

\* A Uint256 too large to count with is kept as the digits (base 256, most
\* significant first, no leading zero) that from_bytes_be builds it from.
RECURSIVE Digits(_)
Digits(bytes) ==
    IF bytes = <<>> THEN <<>>
    ELSE IF Head(bytes) = 0 THEN Digits(Tail(bytes)) ELSE bytes

\* Uint256::max_value(), 2^256 - 1.
MaxValue == [i \in 1..WordBytes |-> 255]

\* a / 2u32.into(): long division of the digits by two.
RECURSIVE HalfFrom(_, _)
HalfFrom(digits, carry) ==
    IF digits = <<>> THEN <<>>
    ELSE LET d == carry * 256 + Head(digits)
         IN  <<d \div 2>> \o HalfFrom(Tail(digits), d % 2)

Half(digits) == Digits(HalfFrom(digits, 0))

\* a > b and a >= b on digits: the longer number is the greater, numbers of
\* one length compare digit by digit from the most significant.
RECURSIVE Greater(_, _)
Greater(a, b) ==
    IF Len(a) # Len(b) THEN Len(a) > Len(b)
    ELSE IF a = <<>> THEN FALSE
    ELSE IF Head(a) # Head(b) THEN Head(a) > Head(b)
    ELSE Greater(Tail(a), Tail(b))

\* A bug that takes an allowance of exactly half the maximum as approved.
AllowanceApprovedFromHalf(allowance) ==
    Greater(allowance, Half(MaxValue)) \/ allowance = Half(MaxValue)

\* lib.rs:181, allowance > (Uint256::max_value() / 2u32.into())
AllowanceApproved(allowance) == Greater(allowance, Half(MaxValue))

\* The and_then closure of each read-only method (lib.rs:64-72, 89-97,
\* 170-182, 350-358): bail on an answer shorter than a word, else the number
\* in its first word, or for the allowance whether that number is approved.
Decoded(op, output) ==
    IF GetWord(output) = None
    THEN [status |-> "MalformedResponse", value |-> NoValue]
    ELSE [status |-> "ok",
          value |-> IF op = CheckOp THEN AllowanceApproved(Digits(GetWord(output)))
                    ELSE from_bytes_be(GetWord(output))]

\* lib.rs:149 / 277, transfered = Uint256::from_bytes_be(&response.topics[3])
TransferedAmount(response) == from_bytes_be(response.topics[PurchaseAmountTopic])

\* A bug that multiplies before dividing.
MinOutputMulFirst(expected) == (expected * SlippageFactor) \div SlippageDivisor

\* lib.rs:119 / 243, (expected / 40) * 39
MinOutput(expected) == (expected \div SlippageDivisor) * SlippageFactor

\* A bug that gives the chain one second more than the caller waits.
DeadlineOffByOne(timestamp, timeout) == timestamp + timeout + 1

\* lib.rs:120 / 244, deadline = block.timestamp + timeout
Deadline(timestamp, timeout) == timestamp + timeout

\* ------------------------------------------------------------------- state
VARIABLES
    now,      \* wall clock of the caller's machine, in seconds
    lastTs,   \* block.timestamp of the latest block of the Ethereum chain
    ninv,     \* how many invocations the caller has made
    calls,    \* the future in each slot: its stage, inputs and parts
    txs       \* the transactions handed to send_transaction, in order: those
              \* not settled yet and those of the futures the caller holds

vars == <<now, lastTs, ninv, calls, txs>>

\* A log: the contract that emitted it, its topics, and the invocation whose
\* transaction emitted it (0 for a transaction of another account).
NoLog == [address |-> "none", topics |-> <<>>, tx |-> 0]

\* A slot that holds no future yet.
IdleCall ==
    [id |-> 0, op |-> "none", pc |-> "idle", amount |-> 0, timeout |-> 0,
     tInvoke |-> 0, tStart |-> 0, block |-> NoValue, quote |-> NoValue,
     send |-> "none", wait |-> "none", hit |-> NoLog, response |-> NoLog,
     output |-> <<>>, status |-> "idle", value |-> NoValue]

\* Amounts the caller swaps or bridges, quotes the exchange returns and
\* amounts it pays out when a swap executes.
InputAmounts == {5}
Quotes == {39, 80}
PurchaseAmounts == {39, 80}
ArithQuotes == 0..MaxQuote \cup {4000}
ConcurrentQuotes == {80}

\* The answers contract_call gives to a read-only method: a word (for the
\* allowance the words around half the maximum, for the others the encodings
\* of a few amounts), a word followed by more bytes, or an answer cut short.
SmallAmounts == {0, 1, 39, 255, 256, 4000, 65536, 1000000}
ShortLens == {0, WordBytes - 1}

Words(op) ==
    IF op = CheckOp
    THEN {<<first>> \o [i \in 1..(WordBytes - 2) |-> mid] \o <<last>> :
             first \in {0, 127, 128, 255}, mid \in {0, 255}, last \in {0, 254, 255}}
    ELSE {EncodeWord(n) : n \in SmallAmounts}

Outputs(op) ==
    Words(op)
    \cup {w \o <<7>> : w \in Words(op)}
    \cup {SubSeq(w, 1, k) : w \in Words(op), k \in ShortLens}

\* TokenBridge::new leaves no state but the addresses; nothing is in flight.
Init ==
    /\ now = 0
    /\ lastTs = 0
    /\ ninv = 0
    /\ calls = [s \in Slots |-> IdleCall]
    /\ txs = <<>>

\* ------------------------------------------------------------ the filters
\* The event and indexed topics each operation passes to wait_for_event_alt.
PurchaseEvent(op) ==
    IF op = "eth_to_dai_swap" THEN "TokenPurchase(address,uint256,uint256)"
    ELSE "EthPurchase(address,uint256,uint256)"

ApprovalEvent == "Approval(address,address,uint256)"

\* lib.rs:138-145, 212-219, 266-273; an empty set stands for None.
FilterOf(op) ==
    IF op \in SwapOps
    THEN [address |-> uniswap_address, event |-> PurchaseEvent(op),
          topic1 |-> {own_address}, topic2 |-> {}]
    ELSE [address |-> foreign_dai_contract_address, event |-> ApprovalEvent,
          topic1 |-> {own_address}, topic2 |-> {uniswap_address}]

\* The node's matching of a log against a filter: address, signature and
\* the indexed topics the filter constrains.
Matches(log, f) ==
    /\ log.address = f.address
    /\ log.topics[1] = f.event
    /\ (f.topic1 = {} \/ log.topics[2] \in f.topic1)
    /\ (f.topic2 = {} \/ log.topics[3] \in f.topic2)

\* A log is emitted: every installed filter that has nothing to deliver yet
\* keeps it if it matches (the future takes the first log it is given).
Emit(cs, log) ==
    [s \in Slots |->
        IF /\ cs[s].pc = "joined" /\ cs[s].wait = "polling" /\ cs[s].hit = NoLog
           /\ Matches(log, FilterOf(cs[s].op))
        THEN [cs[s] EXCEPT !.hit = log]
        ELSE cs[s]]

\* ------------------------------------------------------------- the timers
\* A bug that bounds only the event wait of every operation.
TimerArmedWaitOnly(c) ==
    /\ c.pc = "joined"
    /\ c.op \in SwapOps \cup {ApproveOp}
    /\ c.wait \in {"creating", "polling"}

\* What .timeout(..) wraps: in a swap the event wait alone (lib.rs:138-146,
\* 266-274), in the approval the join of submission and wait (lib.rs:204-220);
\* the bridge transfers have none.
TimerArmed(c) ==
    /\ c.pc = "joined"
    /\ \/ c.op \in SwapOps /\ c.wait \in {"creating", "polling"}
       \/ c.op = ApproveOp

\* The Delay is created together with the Timeout, at tStart, and is over
\* `timeout` seconds later.
Expired(c) == TimerArmed(c) /\ now >= c.tStart + c.timeout

\* The clock does not run past a timer that is still armed: the timer thread
\* wakes the task when the Delay is over.
CanAdvance ==
    /\ now < MaxTime
    /\ \A s \in Slots : TimerArmed(calls[s]) => now < calls[s].tStart + calls[s].timeout

\* --------------------------------------------------------------- the joins
\* A bug that lets the event alone complete the join.
JoinReadyEventOnly(c) ==
    IF c.op \in BridgeOps THEN c.send = "ok" ELSE c.wait = "ok"

\* A bug that makes every operation, the bridge transfers too, wait for an event.
JoinReadyAwaitsEvent(c) == c.send = "ok" /\ c.wait = "ok"

\* Join::poll yields once both sides have yielded (lib.rs:137, 212, 265); a
\* bridge transfer is the submission alone (lib.rs:297, 326).
JoinReady(c) ==
    IF c.op \in BridgeOps THEN c.send = "ok" ELSE c.send = "ok" /\ c.wait = "ok"

\* The transactions an invocation has handed to send_transaction, and the
\* latest of them (0 if none).
TxsOf(id) == {t \in 1..Len(txs) : txs[t].inv = id}

TxOf(id) ==
    IF TxsOf(id) = {} THEN 0 ELSE CHOOSE t \in TxsOf(id) : \A u \in TxsOf(id) : u <= t

\* The closing and_then of each operation (lib.rs:148-151, 221, 276-279): the
\* swap returns the amount of the event, the approval (), the bridge transfer
\* what send_transaction returned.  The closure's captures are consumed.
Finish(c) ==
    IF JoinReady(c)
    THEN [c EXCEPT !.pc = "done", !.status = "ok",
                   !.tInvoke = 0, !.block = NoValue, !.quote = NoValue,
                   !.value = IF c.op \in SwapOps THEN TransferedAmount(c.response)
                             ELSE IF c.op = ApproveOp THEN 0
                             ELSE TxOf(c.id)]
    ELSE c

\* A bug that lets a swap whose submission has failed wait for its event.
FailAfterBoth(c, err) ==
    IF c.op \in SwapOps /\ c.send = "err" /\ c.wait \in {"creating", "polling"}
    THEN c
    ELSE [c EXCEPT !.pc = "done", !.status = err, !.tInvoke = 0, !.quote = NoValue,
                   !.send = IF c.send = "none" THEN "none" ELSE "dropped",
                   !.wait = IF c.wait = "none" THEN "none" ELSE "dropped",
                   !.hit = NoLog, !.response = NoLog]

\* An error of either side ends the join; the other side is dropped, and
\* with it what it had got.
Fail(c, err) ==
    [c EXCEPT !.pc = "done", !.status = err, !.tInvoke = 0, !.quote = NoValue,
              !.send = IF c.send = "none" THEN "none" ELSE "dropped",
              !.wait = IF c.wait = "none" THEN "none" ELSE "dropped",
              !.hit = NoLog, !.response = NoLog]

\* The settled transactions of futures the caller has let go of are history.
Settled(tx) == tx.state \in {"executed", "reverted", "rejected"}

Current(seq, cs) ==
    LET held == {cs[s].id : s \in Slots}
        Keep(tx) == ~Settled(tx) \/ tx.inv \in held
    IN  SelectSeq(seq, Keep)

\* ------------------------------------------------------------- submission
\* The payload of the call each operation encodes and the contract it is sent
\* to (lib.rs:121-131, 198-209, 245-259, 297-310, 326-336).
NewTx(c, block, expected) ==
    [inv |-> c.id, state |-> "sent", amount |-> c.amount,
     to |-> CASE c.op \in SwapOps -> uniswap_address
              [] c.op = ApproveOp -> foreign_dai_contract_address
              [] c.op = "dai_to_xdai_bridge" -> foreign_dai_contract_address
              [] OTHER -> xdai_home_bridge_address,
     fn |-> CASE c.op = "eth_to_dai_swap" -> "ethToTokenSwapInput(uint256,uint256)"
              [] c.op = "dai_to_eth_swap" -> "tokenToEthSwapInput(uint256,uint256,uint256)"
              [] c.op = ApproveOp -> "approve(address,uint256)"
              [] c.op = "dai_to_xdai_bridge" -> "transfer(address,uint256)"
              [] OTHER -> "",
     min |-> IF c.op \in SwapOps THEN MinOutput(expected) ELSE NoValue,
     deadline |-> IF c.op \in SwapOps THEN Deadline(block, c.timeout) ELSE NoValue]

\* send_transaction is started, and with it, for a swap or the approval, the
\* event wait and the timer.
Submitted(s, c, block, expected) ==
    /\ txs' = Append(Current(txs, [calls EXCEPT ![s] = c]), NewTx(c, block, expected))
    /\ calls' = [calls EXCEPT ![s] =
                    [c EXCEPT !.pc = "joined", !.send = "pending",
                              !.wait = IF c.op \in BridgeOps THEN "none" ELSE "creating",
                              !.tStart = now]]

\* ------------------------------------------------------------- the caller
\* The caller keeps to one operation at a time on the one account.
Serialized == \A r \in Slots : calls[r].pc \in {"idle", "done"}

\* A bug that remembers a successful approval and answers the next call of
\* approve_uniswap_dai_transfers from memory.
CallRemembersApproval(limit, s, o, t, a) ==
    /\ ninv < limit
    /\ s = 1
    /\ Serialized
    /\ ninv' = ninv + 1
    /\ LET c == [IdleCall EXCEPT !.id = ninv + 1, !.op = o, !.amount = a,
                                 !.status = "pending",
                                 !.timeout = IF o \in BridgeOps THEN 0 ELSE t,
                                 !.tInvoke = now]
       IN  IF o = ApproveOp /\ calls[s].op = ApproveOp /\ calls[s].status = "ok"
           THEN /\ calls' = [calls EXCEPT ![s] =
                                [c EXCEPT !.pc = "done", !.status = "ok", !.value = 0]]
                /\ txs' = Current(txs, calls')
           ELSE IF o \in SwapOps
           THEN /\ calls' = [calls EXCEPT ![s] = [c EXCEPT !.pc = "reading"]]
                /\ txs' = Current(txs, calls')
           ELSE Submitted(s, c, NoValue, NoValue)
    /\ UNCHANGED <<now, lastTs>>

\* A call of one of the five state-changing methods; the caller lets go of
\* the future the slot held.  A swap starts its two reads (lib.rs:115-116,
\* 239-240); the others submit at once.
Call(limit, s, o, t, a) ==
    /\ ninv < limit
    /\ s = 1
    /\ Serialized
    /\ ninv' = ninv + 1
    /\ LET c == [IdleCall EXCEPT !.id = ninv + 1, !.op = o, !.amount = a,
                                 !.status = "pending",
                                 !.timeout = IF o \in BridgeOps THEN 0 ELSE t,
                                 !.tInvoke = now]
       IN  IF o \in SwapOps
           THEN /\ calls' = [calls EXCEPT ![s] = [c EXCEPT !.pc = "reading"]]
                /\ txs' = Current(txs, calls')
           ELSE Submitted(s, c, NoValue, NoValue)
    /\ UNCHANGED <<now, lastTs>>

Invoke(s, o, t, a) == Call(MaxInv, s, o, t, a)

\* The same call, of a caller that makes up to MaxSerial of them in turn.
InvokeNext(s, o, t, a) == Call(MaxSerial, s, o, t, a)

\* The same call, as the input of the arithmetic of a swap.
InvokeSwap(s, o, t, a) == o \in SwapOps /\ Call(MaxInv, s, o, t, a)

\* approve_uniswap_dai_transfers called again and again, each call after the
\* one before it has ended; the transaction carries no ether (lib.rs:207).
InvokeApprove(s, t) == Call(MaxSerial, s, ApproveOp, t, 0)

\* A call of one of the read-only methods: contract_call is sent to the node
\* (lib.rs:58-63, 83-88, 164-169, 344-349); no transaction is made.
InvokeRead(s, o, a) ==
    /\ ninv < MaxInv
    /\ s = 1
    /\ Serialized
    /\ o \in ReadOps
    /\ ninv' = ninv + 1
    /\ calls' = [calls EXCEPT ![s] =
                    [IdleCall EXCEPT !.id = ninv + 1, !.op = o, !.pc = "calling",
                                     !.amount = IF o \in PriceOps THEN a ELSE 0,
                                     !.status = "pending", !.tInvoke = now]]
    /\ txs' = Current(txs, calls')
    /\ UNCHANGED <<now, lastTs>>

\* contract_call answers with the bytes the contract returned, and the
\* closure decodes them.
ContractCallOk(s, output) ==
    /\ calls[s].pc = "calling"
    /\ output \in Outputs(calls[s].op)
    /\ calls' = [calls EXCEPT ![s] =
                    [calls[s] EXCEPT !.pc = "done", !.tInvoke = 0, !.output = output,
                                     !.status = Decoded(calls[s].op, output).status,
                                     !.value = Decoded(calls[s].op, output).value]]
    /\ UNCHANGED <<now, lastTs, ninv, txs>>

\* contract_call fails: the method fails with that error.
ContractCallErr(s) ==
    /\ calls[s].pc = "calling"
    /\ calls' = [calls EXCEPT ![s] = Fail(calls[s], "TransportFailure")]
    /\ UNCHANGED <<now, lastTs, ninv, txs>>

\* A bug that submits as soon as the quote is there, block or no block.
AfterReadQuoteOnly(s, c) ==
    IF c.quote # NoValue
    THEN Submitted(s, c, c.block, c.quote)
    ELSE calls' = [calls EXCEPT ![s] = c] /\ UNCHANGED txs

\* A caller that does not keep to one operation at a time: a swap is called
\* while another, in the same direction, is still in flight; each call makes
\* its own future with its own reads, submission, wait and timer.
InvokeConcurrent(s, o, t, a) ==
    /\ s = ninv + 1
    /\ calls[s].pc = "idle"
    /\ o \in SwapOps
    /\ \A r \in Slots : calls[r].pc # "idle" => calls[r].op = o
    /\ ninv' = ninv + 1
    /\ calls' = [calls EXCEPT ![s] =
                    [IdleCall EXCEPT !.id = ninv + 1, !.op = o, !.pc = "reading",
                                     !.amount = a, !.status = "pending",
                                     !.timeout = t, !.tInvoke = now]]
    /\ txs' = Current(txs, calls')
    /\ UNCHANGED <<now, lastTs>>

\* The first join of a swap (lib.rs:115-117, 239-241): once the block and the
\* quote are both there the closure computes the bound and the deadline and
\* submits.
AfterRead(s, c) ==
    IF c.block # NoValue /\ c.quote # NoValue
    THEN Submitted(s, c, c.block, c.quote)
    ELSE calls' = [calls EXCEPT ![s] = c] /\ UNCHANGED txs

\* eth_get_latest_block answers with the latest block.
ReadBlock(s) ==
    /\ calls[s].pc = "reading" /\ calls[s].block = NoValue
    /\ AfterRead(s, [calls[s] EXCEPT !.block = lastTs])
    /\ UNCHANGED <<now, lastTs, ninv>>

\* eth_to_dai_price / dai_to_eth_price answer with the quote (lib.rs:52-99).
ReadQuote(s, q) ==
    /\ calls[s].pc = "reading" /\ calls[s].quote = NoValue
    /\ AfterRead(s, [calls[s] EXCEPT !.quote = q])
    /\ UNCHANGED <<now, lastTs, ninv>>

\* Either read fails: the join fails with that error and nothing is submitted.
ReadFail(s, err) ==
    /\ calls[s].pc = "reading"
    /\ \/ calls[s].block = NoValue /\ err = "TransportFailure"
       \/ calls[s].quote = NoValue
    /\ calls' = [calls EXCEPT ![s] = Fail(calls[s], err)]
    /\ UNCHANGED <<now, lastTs, ninv, txs>>

\* ------------------------------------------------- the submission's result
\* The node has taken the transaction into its pool, or has refused it.
NodeAccept(t) ==
    /\ txs[t].state = "sent"
    /\ txs' = [txs EXCEPT ![t].state = "pool"]
    /\ UNCHANGED <<now, lastTs, ninv, calls>>

NodeReject(t) ==
    /\ txs[t].state = "sent"
    /\ txs' = Current([txs EXCEPT ![t].state = "rejected"], calls)
    /\ UNCHANGED <<now, lastTs, ninv, calls>>

\* send_transaction yields the hash of a transaction the node accepted.
SendOk(s) ==
    /\ calls[s].pc = "joined" /\ calls[s].send = "pending"
    /\ txs[TxOf(calls[s].id)].state \in {"pool", "executed", "reverted"}
    /\ calls' = [calls EXCEPT ![s] = Finish([calls[s] EXCEPT !.send = "ok"])]
    /\ UNCHANGED <<now, lastTs, ninv, txs>>

\* send_transaction fails (signing, transport, the node's refusal, a lost
\* answer): the join fails at once with that error.
SendErr(s) ==
    /\ calls[s].pc = "joined" /\ calls[s].send = "pending"
    /\ calls' = [calls EXCEPT ![s] = Fail([calls[s] EXCEPT !.send = "err"], "SendFailure")]
    /\ UNCHANGED <<now, lastTs, ninv, txs>>

\* ---------------------------------------------------------- the event wait
\* wait_for_event_alt has installed its filter: it sees the logs from here on.
FilterCreated(s) ==
    /\ calls[s].pc = "joined" /\ calls[s].wait = "creating"
    /\ calls' = [calls EXCEPT ![s].wait = "polling"]
    /\ UNCHANGED <<now, lastTs, ninv, txs>>

\* The filter delivers its first matching log; |_| true accepts it.
EventObserved(s) ==
    /\ calls[s].pc = "joined" /\ calls[s].wait = "polling"
    /\ calls[s].hit # NoLog
    /\ calls' = [calls EXCEPT ![s] =
                    Finish([calls[s] EXCEPT !.wait = "ok", !.hit = NoLog,
                                            !.response = calls[s].hit])]
    /\ UNCHANGED <<now, lastTs, ninv, txs>>

\* A bug that submits again when the wait has timed out.
CallTimeoutRetry(s) ==
    /\ Expired(calls[s])
    /\ Submitted(s, calls[s], calls[s].block, calls[s].quote)
    /\ UNCHANGED <<now, lastTs, ninv>>

\* The Delay is over before the wrapped future has yielded: Timeout.
CallTimeout(s) ==
    /\ Expired(calls[s])
    /\ calls' = [calls EXCEPT ![s] = Fail(calls[s], "Timeout")]
    /\ UNCHANGED <<now, lastTs, ninv, txs>>

\* ---------------------------------------------------------------- the chain
Tick ==
    /\ CanAdvance
    /\ now' = now + 1
    /\ UNCHANGED <<lastTs, ninv, calls, txs>>

\* The log a transaction leaves when it executes.
LogOf(t, bought) ==
    LET tx == txs[t]
    IN  IF tx.to = uniswap_address
        THEN [address |-> uniswap_address, tx |-> tx.inv,
              topics |-> <<IF tx.fn = "ethToTokenSwapInput(uint256,uint256)"
                           THEN PurchaseEvent("eth_to_dai_swap")
                           ELSE PurchaseEvent("dai_to_eth_swap"),
                           own_address, EncodeWord(tx.amount), EncodeWord(bought)>>]
        ELSE [address |-> foreign_dai_contract_address, tx |-> tx.inv,
              topics |-> <<ApprovalEvent, own_address, uniswap_address>>]

EmitsLog(t) == txs[t].fn \notin {"transfer(address,uint256)", ""}

\* The exchange executes a swap only up to its deadline and only for at least
\* the minimum output; the other calls have no such condition.
MayExecute(t, ts, bought) ==
    txs[t].to = uniswap_address => txs[t].deadline >= ts /\ bought >= txs[t].min

\* A block is mined at the start of a new second, with a timestamp beyond the
\* previous block's and not ahead of the clock.  It holds no transaction of
\* own_address (t = 0), or one from the pool, which executes or reverts.
MineBlock(t, ts, bought, success) ==
    /\ CanAdvance
    /\ now' = now + 1
    /\ ts \in (lastTs + 1)..(now + 1)
    /\ lastTs' = ts
    /\ IF t = 0
       THEN /\ UNCHANGED <<txs, calls>>
            /\ bought = 0 /\ success
       ELSE /\ txs[t].state = "pool"
            /\ IF txs[t].to = uniswap_address /\ success
               THEN bought \in PurchaseAmounts ELSE bought = 0
            /\ success => MayExecute(t, ts, bought)
            /\ ~success => txs[t].to = uniswap_address
            /\ txs' = Current([txs EXCEPT ![t].state =
                                   IF success THEN "executed" ELSE "reverted"], calls)
            /\ calls' = IF success /\ EmitsLog(t) THEN Emit(calls, LogOf(t, bought))
                        ELSE calls
    /\ UNCHANGED ninv

\* Logs of the same contracts that are not for this account as buyer, or not
\* for the exchange as spender.
ForeignLogs ==
    {[address |-> uniswap_address, tx |-> 0,
      topics |-> <<PurchaseEvent(op), other_address, EncodeWord(5), EncodeWord(39)>>] :
        op \in SwapOps}
    \cup {[address |-> foreign_dai_contract_address, tx |-> 0,
           topics |-> <<ApprovalEvent, own_address, other_address>>]}

ForeignLog(l) ==
    /\ calls' = Emit(calls, l)
    /\ UNCHANGED <<now, lastTs, ninv, txs>>

\* ------------------------------------------------------ the specifications
\* What happens to the futures once they are made.
Run ==
    \/ \E s \in Slots : ReadBlock(s)
    \/ \E s \in Slots, q \in Quotes : ReadQuote(s, q)
    \/ \E s \in Slots, err \in {"MalformedResponse", "TransportFailure"} : ReadFail(s, err)
    \/ \E t \in 1..Len(txs) : NodeAccept(t)
    \/ \E t \in 1..Len(txs) : NodeReject(t)
    \/ \E s \in Slots : SendOk(s)
    \/ \E s \in Slots : SendErr(s)
    \/ \E s \in Slots : FilterCreated(s)
    \/ \E s \in Slots : EventObserved(s)
    \/ \E s \in Slots : CallTimeout(s)
    \/ Tick
    \/ \E t \in 0..Len(txs), ts \in 1..MaxTime, b \in PurchaseAmounts \cup {0},
          s \in BOOLEAN : MineBlock(t, ts, b, s)
    \/ \E l \in ForeignLogs : ForeignLog(l)

Next ==
    \/ \E s \in Slots, o \in Ops, t \in Timeouts, a \in InputAmounts : Invoke(s, o, t, a)
    \/ Run

Spec == Init /\ [][Next]_vars

NextSerial ==
    \/ \E s \in Slots, o \in Ops, t \in Timeouts, a \in InputAmounts : InvokeNext(s, o, t, a)
    \/ Run

SpecSerial == Init /\ [][NextSerial]_vars

\* Two swaps in one direction in flight at a time, both given a quote of
\* ConcurrentQuotes by the exchange.
NextConcurrent ==
    \/ \E s \in Slots, o \in SwapOps, t \in Timeouts, a \in InputAmounts :
          InvokeConcurrent(s, o, t, a)
    \/ \E s \in Slots : ReadBlock(s)
    \/ \E s \in Slots, q \in ConcurrentQuotes : ReadQuote(s, q)
    \/ \E s \in Slots, err \in {"MalformedResponse", "TransportFailure"} : ReadFail(s, err)
    \/ \E t \in 1..Len(txs) : NodeAccept(t)
    \/ \E t \in 1..Len(txs) : NodeReject(t)
    \/ \E s \in Slots : SendOk(s)
    \/ \E s \in Slots : SendErr(s)
    \/ \E s \in Slots : FilterCreated(s)
    \/ \E s \in Slots : EventObserved(s)
    \/ \E s \in Slots : CallTimeout(s)
    \/ Tick
    \/ \E t \in 0..Len(txs), ts \in 1..MaxTime, b \in ConcurrentQuotes \cup {0},
          s \in BOOLEAN : MineBlock(t, ts, b, s)
    \/ \E l \in ForeignLogs : ForeignLog(l)

SpecConcurrent == Init /\ [][NextConcurrent]_vars

\* The approval alone, called up to MaxSerial times in turn.
NextApprove ==
    \/ \E s \in Slots, t \in Timeouts : InvokeApprove(s, t)
    \/ \E t \in 1..Len(txs) : NodeAccept(t)
    \/ \E t \in 1..Len(txs) : NodeReject(t)
    \/ \E s \in Slots : SendOk(s)
    \/ \E s \in Slots : SendErr(s)
    \/ \E s \in Slots : FilterCreated(s)
    \/ \E s \in Slots : EventObserved(s)
    \/ \E s \in Slots : CallTimeout(s)
    \/ Tick
    \/ \E t \in 0..Len(txs), ts \in 1..MaxTime : MineBlock(t, ts, 0, TRUE)
    \/ \E l \in ForeignLogs : ForeignLog(l)

SpecApprove == Init /\ [][NextApprove]_vars

\* The read-only methods and the decoding of their answers.
NextRead ==
    \/ \E s \in Slots, o \in ReadOps, a \in InputAmounts : InvokeRead(s, o, a)
    \/ \E s \in Slots : \E output \in Outputs(calls[s].op) : ContractCallOk(s, output)
    \/ \E s \in Slots : ContractCallErr(s)

SpecRead == Init /\ [][NextRead]_vars

\* The arithmetic of a swap over the quotes of ArithQuotes: the two reads of
\* one invocation and the closure that follows them.
NextArith ==
    \/ \E s \in Slots, o \in Ops, t \in Timeouts, a \in InputAmounts : InvokeSwap(s, o, t, a)
    \/ \E s \in Slots : ReadBlock(s)
    \/ \E s \in Slots, q \in ArithQuotes : ReadQuote(s, q)

SpecArith == Init /\ [][NextArith]_vars

\* ---------------------------------------------------------------- the claims
SwapCall(c) == c.op \in SwapOps /\ c.pc # "idle"

\* The transaction of the future in slot s.
OwnTx(s) == txs[TxOf(calls[s].id)]

\* C1: a swap or an approval is reported successful only if its
\* send_transaction was accepted by the network and an event matching its
\* filter (emitting address, event signature, indexed topics) was observed,
\* and the event is never observed later than `timeout` after the wait began.
C1_SuccessNeedsSendAndEvent ==
    /\ [](\A s \in Slots :
            calls[s].op \in SwapOps \cup {ApproveOp} /\ calls[s].status = "ok" =>
                /\ calls[s].send = "ok"
                /\ OwnTx(s).state \in {"pool", "executed", "reverted"}
                /\ calls[s].wait = "ok"
                /\ Matches(calls[s].response, FilterOf(calls[s].op)))
    /\ [][\A s \in Slots :
            calls[s].wait # "ok" /\ calls'[s].wait = "ok" =>
                now <= calls[s].tStart + calls[s].timeout]_vars

C1_Witness ==
    \E s \in Slots : calls[s].op \in SwapOps /\ calls[s].status = "ok"

\* C2: a swap whose event has not been delivered is no longer pending once
\* `timeout` seconds have passed since the invocation, the two reads included.
C2_TimeoutCountsFromInvocation ==
    \A s \in Slots :
        SwapCall(calls[s]) /\ calls[s].pc = "joined"
            /\ calls[s].wait \in {"creating", "polling"}
        => now <= calls[s].tInvoke + calls[s].timeout

\* C3: a swap whose submission has not resolved is no longer pending once
\* `timeout` seconds have passed since the submission, event or no event.
C3_UnresolvedSendTimesOut ==
    \A s \in Slots :
        SwapCall(calls[s]) /\ calls[s].pc = "joined" /\ calls[s].send = "pending"
        => now <= calls[s].tStart + calls[s].timeout

\* C4: with the calls made one after another, the event a successful swap
\* takes its amount from was emitted by the transaction that swap submitted.
C4_EventOfOwnTransaction ==
    \A s \in Slots :
        SwapCall(calls[s]) /\ calls[s].status = "ok"
        => calls[s].response.tx = calls[s].id

\* C5: the deadline a swap submits is the timestamp of the block it read plus
\* its timeout; and once the swap has failed with Timeout, every block mined
\* from then on whose timestamp has not run behind the time passed since the
\* swap read its block and submitted has a timestamp beyond that deadline and
\* does not execute the swap's transaction.
C5_DeadlineAndNoLateExecution ==
    /\ [](\A s \in Slots :
            /\ SwapCall(calls[s]) /\ TxOf(calls[s].id) # 0
            /\ calls[s].status \in {"pending", "Timeout"}
            => OwnTx(s).deadline = calls[s].block + calls[s].timeout)
    /\ [][\A s \in Slots :
            /\ SwapCall(calls[s]) /\ calls[s].status = "Timeout"
            /\ lastTs' # lastTs
            /\ lastTs' - calls[s].block >= now' - calls[s].tStart
            => /\ lastTs' > OwnTx(s).deadline
               /\ \A t \in 1..Len(txs') :
                     txs'[t].inv = calls[s].id /\ txs'[t].state = "executed"
                     => OwnTx(s).state = "executed"]_vars

C5_Witness ==
    \E s \in Slots :
        /\ SwapCall(calls[s]) /\ calls[s].status = "Timeout"
        /\ OwnTx(s).state = "reverted"
        /\ now > calls[s].tStart + calls[s].timeout
        /\ lastTs > OwnTx(s).deadline

\* C6: an approval is never pending later than `timeout` after its
\* invocation, whatever the submission and the event wait do, and it fails
\* with Timeout only when that time is up.
C6_ApprovalBoundedByTimeout ==
    \A s \in Slots :
        calls[s].op = ApproveOp =>
            /\ calls[s].status = "pending" => now <= calls[s].tInvoke + calls[s].timeout
            /\ calls[s].status = "pending" => calls[s].tStart = calls[s].tInvoke
            /\ calls[s].status = "Timeout" => now >= calls[s].tStart + calls[s].timeout

\* The approval has timed out with its submission still unresolved.
C6_Witness ==
    \E s \in Slots :
        /\ calls[s].op = ApproveOp /\ calls[s].status = "Timeout"
        /\ OwnTx(s).state = "sent"

\* C7: an invocation hands at most one transaction to send_transaction, and
\* once it has ended (success, timeout or any failure) it stays as it ended
\* and submits nothing more.
C7_AtMostOneSubmission ==
    /\ [](\A s \in Slots : Cardinality(TxsOf(calls[s].id)) <= 1)
    /\ [][\A s \in Slots :
            calls[s].pc = "done" /\ calls'[s].id = calls[s].id =>
                /\ calls'[s] = calls[s]
                /\ Cardinality({t \in 1..Len(txs') : txs'[t].inv = calls[s].id})
                       <= Cardinality(TxsOf(calls[s].id))]_vars

C7_Witness ==
    \E s \in Slots :
        /\ calls[s].status = "Timeout"
        /\ Cardinality(TxsOf(calls[s].id)) = 1

\* The quote a submitted swap was computed from, and the minimum it carries.
Submitting(s) == SwapCall(calls[s]) /\ calls[s].pc = "joined"

\* C8: the minimum output a swap submits is (Q / 40) * 39, dividing first; it
\* never exceeds the quote Q; Q = 4000 gives 3900 and Q = 39 gives 0.
C8_MinOutputDividesFirst ==
    \A s \in Slots :
        Submitting(s) =>
            LET Q == calls[s].quote
                m == OwnTx(s).min
            IN  /\ m = (Q \div 40) * 39
                /\ m <= Q
                /\ Q = 4000 => m = 3900
                /\ Q = 39 => m = 0

C8_Witness ==
    \E s \in Slots : Submitting(s) /\ calls[s].quote = 4000 /\ OwnTx(s).min = 3900

\* C9 as stated: the submitted minimum output is floor(Y * 39 / 40).
C9_FloorOfProduct ==
    \A s \in Slots :
        Submitting(s) => OwnTx(s).min = (calls[s].quote * 39) \div 40

\* C9 as amended: the submitted minimum output is floor(Y / 40) * 39, which
\* is at most floor(Y * 39 / 40) and equals it exactly when Y mod 40 <= 1.
C9_FloorBeforeProduct ==
    \A s \in Slots :
        Submitting(s) =>
            LET Y == calls[s].quote
                m == OwnTx(s).min
            IN  /\ m = (Y \div 40) * 39
                /\ m <= (Y * 39) \div 40
                /\ (m = (Y * 39) \div 40) <=> (Y % 40 <= 1)

C9_Witness ==
    \E s \in Slots : Submitting(s) /\ calls[s].quote = 79 /\ OwnTx(s).min = 39

\* C10: the amount a successful swap returns is the value of the fourth topic
\* of the observed Purchase event, whose recipient topic is own_address, and
\* it is at least the minimum output this invocation submitted.
C10_ReturnsEventAmountAboveMinimum ==
    \A s \in Slots :
        SwapCall(calls[s]) /\ calls[s].status = "ok" =>
            /\ calls[s].response.topics[2] = own_address
            /\ calls[s].value = from_bytes_be(calls[s].response.topics[4])
            /\ calls[s].value >= OwnTx(s).min

\* C11: a bridge transfer installs no event wait and runs under no timer; it
\* is successful exactly when its submission was accepted, in the very step
\* send_transaction yields, whether or not the transaction has been mined
\* since; a failed submission ends it with that failure, and nothing else does.
C11_BridgeSuccessIsSubmission ==
    /\ [](\A s \in Slots :
            calls[s].op \in BridgeOps =>
                /\ calls[s].wait = "none"
                /\ calls[s].hit = NoLog /\ calls[s].response = NoLog
                /\ ~TimerArmed(calls[s])
                /\ calls[s].status \in {"pending", "ok", "SendFailure"}
                /\ calls[s].status = "pending" => calls[s].send = "pending"
                /\ calls[s].status = "ok" =>
                       /\ calls[s].send = "ok"
                       /\ OwnTx(s).state \in {"pool", "executed", "reverted"})
    /\ [][\A s \in Slots :
            /\ calls[s].op \in BridgeOps /\ calls'[s].id = calls[s].id
            /\ calls[s].send = "pending" /\ calls'[s].send # "pending"
            => \/ calls'[s].send = "ok" /\ calls'[s].status = "ok"
               \/ calls'[s].send = "dropped" /\ calls'[s].status = "SendFailure"]_vars

\* A bridge transfer is successful while its transaction waits in the pool.
C11_Witness ==
    \E s \in Slots :
        /\ calls[s].op \in BridgeOps /\ calls[s].status = "ok"
        /\ OwnTx(s).state = "pool"

\* C12: every invocation of approve_uniswap_dai_transfers, the second like
\* the first and whatever the first came to, starts with nothing observed,
\* hands its own approve transaction to send_transaction and installs its own
\* wait; it is successful only with an Approval event (owner own_address,
\* spender the exchange) that its own filter was given while it was polling.
C12_SecondApprovalStartsAfresh ==
    /\ [](\A s \in Slots :
            calls[s].op = ApproveOp =>
                /\ Cardinality(TxsOf(calls[s].id)) = 1
                /\ OwnTx(s).fn = "approve(address,uint256)"
                /\ calls[s].status = "ok" =>
                       /\ calls[s].wait = "ok"
                       /\ Matches(calls[s].response, FilterOf(ApproveOp)))
    /\ [][\A s \in Slots :
            calls'[s].op = ApproveOp =>
                /\ calls'[s].id # calls[s].id =>
                       /\ calls'[s].status = "pending" /\ calls'[s].wait = "creating"
                       /\ calls'[s].hit = NoLog /\ calls'[s].response = NoLog
                       /\ \E t \in 1..Len(txs') :
                              txs'[t].inv = calls'[s].id /\ txs'[t].state = "sent"
                /\ calls'[s].hit # NoLog /\ calls'[s].hit # calls[s].hit =>
                       calls'[s].id = calls[s].id /\ calls[s].wait = "polling"
                /\ calls'[s].response # NoLog /\ calls'[s].response # calls[s].response =>
                       calls'[s].id = calls[s].id /\ calls'[s].response = calls[s].hit]_vars

\* The second approval is successful, on the event of its own transaction.
C12_Witness ==
    \E s \in Slots :
        /\ calls[s].op = ApproveOp /\ calls[s].id = 2 /\ calls[s].status = "ok"
        /\ calls[s].response.tx = 2

\* The first word of the answer a read-only method was given.
ReadDone(s, op) ==
    calls[s].op = op /\ calls[s].pc = "done" /\ Len(calls[s].output) >= 32

\* C13: check_if_uniswap_dai_approved answers true exactly when the allowance
\* exceeds (2^256 - 1) / 2 = 2^255 - 1, that is, when the top bit of the word
\* is set: false at 7f ff .. ff (max / 2), true at 80 00 .. 00 (max / 2 + 1).
C13_ApprovedAboveHalfOfMax ==
    \A s \in Slots :
        ReadDone(s, CheckOp) =>
            LET word == SubSeq(calls[s].output, 1, 32)
            IN  /\ calls[s].status = "ok"
                /\ calls[s].value \in BOOLEAN
                /\ calls[s].value <=> word[1] >= 128
                /\ word = <<127>> \o [i \in 1..31 |-> 255] => calls[s].value = FALSE
                /\ word = <<128>> \o [i \in 1..31 |-> 0] => calls[s].value = TRUE

\* The allowance is exactly max / 2 and the answer is false.
C13_Witness ==
    \E s \in Slots :
        /\ ReadDone(s, CheckOp)
        /\ calls[s].output = <<127>> \o [i \in 1..31 |-> 255]
        /\ calls[s].value = FALSE

\* C14: a read-only method hands nothing to send_transaction; given an
\* answer of fewer than 32 bytes it fails with MalformedResponse, and given
\* more it succeeds, for the prices and the balance with the number whose
\* 32-byte big-endian form is the first 32 bytes of the answer (32 zero bytes
\* give 0, 00 .. 0f 42 40 gives 1,000,000).
C14_ReadsDecodeFirstWord ==
    \A s \in Slots :
        calls[s].op \in ReadOps =>
            /\ txs = <<>> /\ calls[s].send = "none"
            /\ calls[s].pc = "done" /\ calls[s].status # "TransportFailure" =>
                   IF Len(calls[s].output) < 32
                   THEN calls[s].status = "MalformedResponse" /\ calls[s].value = NoValue
                   ELSE LET word == SubSeq(calls[s].output, 1, 32)
                        IN  /\ calls[s].status = "ok"
                            /\ calls[s].op # CheckOp =>
                                   /\ calls[s].value \in Nat
                                   /\ ToBytesBe(calls[s].value, 32) = word
                                   /\ word = [i \in 1..32 |-> 0] => calls[s].value = 0
                                   /\ word = [i \in 1..29 |-> 0] \o <<15, 66, 64>>
                                          => calls[s].value = 1000000

\* A price was decoded from an answer longer than a word.
C14_Witness ==
    \E s \in Slots :
        /\ calls[s].op \in PriceOps /\ calls[s].status = "ok"
        /\ Len(calls[s].output) > 32
        /\ calls[s].value = 1000000

\* C16: a swap that is still pending waits on no failed side: the step in
\* which its send_transaction fails ends it with that failure, event or no
\* event, timer over or not; and while its event wait is unresolved it is
\* never pending beyond the timer of the wait, resolved submission or not,
\* and then ends with Timeout.
C16_JoinFailsWithEitherSide ==
    /\ [](\A s \in Slots :
            SwapCall(calls[s]) /\ calls[s].pc = "joined" =>
                /\ calls[s].send \in {"pending", "ok"}
                /\ calls[s].wait \in {"creating", "polling", "ok"}
                /\ calls[s].wait # "ok" => now <= calls[s].tStart + calls[s].timeout)
    /\ [][\A s \in Slots :
            /\ SwapCall(calls[s]) /\ calls[s].pc = "joined"
            /\ calls'[s].id = calls[s].id
            => /\ calls[s].send = "pending" /\ calls'[s].send \notin {"pending", "ok"}
                  => /\ calls'[s].pc = "done"
                     /\ calls'[s].status \in {"SendFailure", "Timeout"}
                     /\ calls'[s].status = "Timeout" =>
                            now >= calls[s].tStart + calls[s].timeout
               /\ calls'[s].status = "Timeout" => calls[s].wait # "ok"]_vars

\* The submission was refused and the swap has failed with that, before its
\* timer was over.
C16_Witness ==
    \E s \in Slots :
        /\ SwapCall(calls[s]) /\ calls[s].status = "SendFailure"
        /\ OwnTx(s).state = "rejected"
        /\ now < calls[s].tStart + calls[s].timeout

\* C17: while a swap is reading it has handed nothing to send_transaction
\* and has no event wait; it submits and starts the wait only in a step that
\* leaves both the block and the quote read; and a swap that has failed with
\* the error of a read has never submitted.
C17_SubmitsAfterBothReads ==
    /\ [](\A s \in Slots :
            SwapCall(calls[s]) =>
                /\ calls[s].pc = "reading" =>
                       /\ TxsOf(calls[s].id) = {}
                       /\ calls[s].send = "none" /\ calls[s].wait = "none"
                /\ calls[s].pc = "joined" =>
                       calls[s].block # NoValue /\ calls[s].quote # NoValue
                /\ calls[s].status \in {"MalformedResponse", "TransportFailure"} =>
                       /\ TxsOf(calls[s].id) = {}
                       /\ calls[s].send = "none" /\ calls[s].wait = "none")
    /\ [][\A s \in Slots :
            /\ SwapCall(calls[s]) /\ calls'[s].id = calls[s].id
            /\ \/ calls[s].send = "none" /\ calls'[s].send # "none"
               \/ calls[s].wait = "none" /\ calls'[s].wait # "none"
               \/ \E t \in 1..Len(txs') :
                     txs'[t].inv = calls[s].id /\ TxsOf(calls[s].id) = {}
            => /\ calls[s].pc = "reading"
               /\ calls'[s].block # NoValue /\ calls'[s].quote # NoValue
               /\ calls'[s].send = "pending" /\ calls'[s].wait = "creating"]_vars

\* The block was read, the quote was malformed: failed, nothing submitted.
C17_Witness ==
    \E s \in Slots :
        /\ SwapCall(calls[s]) /\ calls[s].status = "MalformedResponse"
        /\ calls[s].block # NoValue
        /\ TxsOf(calls[s].id) = {}

\* C18: with two swaps of one direction in flight, the swaps reported
\* successful are never more than the Purchase events the exchange has
\* emitted to own_address, one for each of their transactions it executed.
C18_OneEventOneSuccess ==
    Cardinality({s \in Slots : SwapCall(calls[s]) /\ calls[s].status = "ok"})
        <= Cardinality({t \in 1..Len(txs) :
                           txs[t].to = uniswap_address /\ txs[t].state = "executed"})

====
